---- MODULE Spec2Model ----
(***************************************************************************)
(* Model of src/src/mlb_props_analyzer.py: the ingestion-and-aggregation   *)
(* pipeline of OddsAPIExcelFetcher.fetch_all_props_to_excel as driven by   *)
(* main(), and the stats cache of MLBPropsStatsAnalyzer.                   *)
(*                                                                         *)
(* Python values are represented as follows.                               *)
(*   dict            a record; an absent key is a field outside DOMAIN     *)
(*   {}              the function with empty domain, <<>>                  *)
(*   None / value    the option <<>> / <<value>>                           *)
(*   outcome names   tuples of one-character strings, so that str.lower()  *)
(*                   is computed character by character                    *)
(*   floats          strings ("1.5") or tenths of a second (sleeps)        *)
(***************************************************************************)
EXTENDS Integers, Sequences, FiniteSets, TLC

VARIABLES
    pc,              \* where main() / fetch_all_props_to_excel stands
    api_key,         \* whether ODDS_API_KEY is set in the environment
    max_events,      \* argument max_events: <<>> is None, <<k>> is the int k
    listing_failed,  \* get_mlb_events caught a RequestException
    listed,          \* number of events the listing call returned
    events,          \* local `events` (after the max_events slice)
    i,               \* loop index of enumerate(events, 1); 0 before the loop
    events_summary,  \* local list events_summary
    retry,           \* loop variable of range(max_retries)
    props_data,      \* local props_data: <<>> is None, <<d>> a dict
    calls,           \* get_event_props calls issued for the current event
    waited,          \* tenths of a second slept since the last get_event_props call
    delays,          \* number of inter-event sleeps taken so far
    unique_players,  \* self.unique_players
    over_props,      \* self.over_props
    under_props,     \* self.under_props
    ingested,        \* every prop_data handed to process_player_data, in order
    responses,       \* per processed event: <<>> (no data) or <<d>> (the response used)
    excel_filename,  \* return value of fetch_all_props_to_excel ("" or the file name)
    report_created,  \* create_excel_workbook saved a workbook
    exit_status,     \* the process's exit status once pc = "exited"
    raised,          \* an exception escaped to the top level (traceback)
    player_stats_cache,  \* analyzer.player_stats_cache
    player_id_cache,     \* analyzer.player_id_cache
    game_logs_cache,     \* analyzer.game_logs_cache
    cache_lock,          \* analyzer.cache_lock: <<>> free, <<w>> held by worker w
    wpc,                 \* per enrichment worker: position in getStats
    wkey,                \* per enrichment worker: the (player, category) key requested
    wresult,             \* per enrichment worker: <<>> or <<value>> returned
    fetch_count          \* per key: number of upstream stats fetches issued

fetchVars == <<pc, api_key, max_events, listing_failed, listed, events, i,
               events_summary, retry, props_data, calls, waited, delays,
               unique_players, over_props, under_props, ingested, responses,
               excel_filename, report_created, exit_status, raised>>

cacheVars == <<player_stats_cache, player_id_cache, game_logs_cache, cache_lock,
               wpc, wkey, wresult, fetch_count>>

vars == <<fetchVars, cacheVars>>

-----------------------------------------------------------------------------
(* Bounds of the model *)

\* Largest number of events the listing call returns.
MaxEvents == 3

\* Number of concurrent enrichment workers requesting stats.
NumWorkers == 3

-----------------------------------------------------------------------------
(* Program constants *)

\* max_retries = 3
max_retries == 3

\* time.sleep(2), in tenths of a second
BackoffTenths == 20

\* delay_between_requests = 1.5, in tenths of a second
DelayTenths == 15

None == <<>>

Some(v) == <<v>>

\* self.prop_categories
prop_categories ==
    { "batter_home_runs", "batter_hits", "batter_total_bases", "batter_rbis",
      "batter_runs_scored", "batter_hits_runs_rbis", "batter_singles",
      "batter_strikeouts", "pitcher_strikeouts", "pitcher_hits_allowed",
      "pitcher_earned_runs", "pitcher_outs" }

\* {category: [] for category in self.prop_categories}
EmptyBuckets == [c \in prop_categories |-> <<>>]

\* dict.get(key, default)
Get(d, k, default) == IF k \in DOMAIN d THEN d[k] ELSE default

\* Python truthiness of `props_data`: None and {} are falsy.
Truthy(opt) == opt # None /\ DOMAIN opt[1] # {}

\* str.lower() on one character (the letters that occur in outcome names).
LowerChar(c) ==
    CASE c = "O" -> "o"
      [] c = "V" -> "v"
      [] c = "E" -> "e"
      [] c = "R" -> "r"
      [] c = "U" -> "u"
      [] c = "N" -> "n"
      [] c = "D" -> "d"
      [] c = "Y" -> "y"
      [] c = "S" -> "s"
      [] OTHER -> c

\* str.lower()
Lower(s) == [k \in 1..Len(s) |-> LowerChar(s[k])]

\* the literals 'over' and 'under'
over == <<"o", "v", "e", "r">>

under == <<"u", "n", "d", "e", "r">>

-----------------------------------------------------------------------------
(* Inputs: what the odds API may answer *)

\* The k-th event of the listing. Events 1 and 3 are a double-header: the same
\* two teams, hence the same game label.
Event(k) ==
    [ id            |-> k,
      home_team     |-> IF k % 2 = 1 THEN "B" ELSE "D",
      away_team     |-> IF k % 2 = 1 THEN "A" ELSE "C",
      commence_time |-> k ]

\* response.json() of the listing call when it holds n events.
Listing(n) == [k \in 1..n |-> Event(k)]

\* Values of the max_events argument: None, 0, 1, 2.
MaxEventsArgs == { None, Some(0), Some(1), Some(2) }

\* Raw outcomes of a market.
oXOver ==
    [ description |-> "Player X", name |-> <<"O", "v", "e", "r">>,
      point |-> "1.5", price |-> -120 ]

oXUnder ==
    [ description |-> "Player X", name |-> <<"U", "n", "d", "e", "r">>,
      point |-> "1.5", price |-> 100 ]

\* upper-case side, no point
oYOVER ==
    [ description |-> "Player Y", name |-> <<"O", "V", "E", "R">>, price |-> -110 ]

\* lower-case side
oYunder ==
    [ description |-> "Player Y", name |-> <<"u", "n", "d", "e", "r">>,
      point |-> "0.5", price |-> 105 ]

\* a side that is neither over nor under, no description
oYes ==
    [ name |-> <<"Y", "e", "s">>, point |-> "0.5", price |-> 150 ]

\* malformed: no price
oNoPrice ==
    [ description |-> "Player X", name |-> <<"O", "v", "e", "r">>, point |-> "1.5" ]

\* malformed: no name
oNoName ==
    [ description |-> "Player Y", point |-> "0.5", price |-> -105 ]

\* the same player as oXOver, spelled in lower case
oxOver ==
    [ description |-> "player x", name |-> <<"O", "v", "e", "r">>,
      point |-> "1.5", price |-> -115 ]

\* The scenario of the specification: Over and Under of one player in batter_hits.
RScenario ==
    [ id |-> "e", bookmakers |-> <<
        [ title |-> "DK", last_update |-> "t0", markets |-> <<
            [ key |-> "batter_hits", last_update |-> "t1",
              outcomes |-> <<oXOver, oXUnder>> ] >> ] >> ]

\* A market key outside the 12 categories.
ROutside ==
    [ id |-> "e", bookmakers |-> <<
        [ title |-> "FD", markets |-> <<
            [ key |-> "batter_walks", outcomes |-> <<oXOver, oYunder>> ] >> ] >> ]

\* Sides in other letter cases, and a side that is no side.
RMixedCase ==
    [ id |-> "e", bookmakers |-> <<
        [ title |-> "DK", last_update |-> "t0", markets |-> <<
            [ key |-> "pitcher_strikeouts",
              outcomes |-> <<oYOVER, oYunder, oYes>> ] >> ] >> ]

\* An outcome without price between two well-formed siblings.
RNoPrice ==
    [ id |-> "e", bookmakers |-> <<
        [ title |-> "DK", markets |-> <<
            [ key |-> "batter_hits", outcomes |-> <<oXOver, oNoPrice, oXUnder>> ] >> ] >> ]

\* An outcome without name before a well-formed sibling and a later bookmaker.
RNoName ==
    [ id |-> "e", bookmakers |-> <<
        [ title |-> "FD", markets |-> <<
            [ key |-> "batter_hits", outcomes |-> <<oNoName, oYunder>> ] >> ],
        [ title |-> "DK", markets |-> <<
            [ key |-> "pitcher_outs", outcomes |-> <<oXUnder>> ] >> ] >> ]

\* Two bookmakers, one of them quoting the same market twice (a duplicate feed),
\* and a bookmaker without markets.
RDuplicate ==
    [ id |-> "e", bookmakers |-> <<
        [ title |-> "DK", markets |-> <<
            [ key |-> "batter_hits", outcomes |-> <<oXOver>> ],
            [ key |-> "batter_hits", outcomes |-> <<oXOver>> ] >> ],
        [ title |-> "MG" ],
        [ title |-> "FD", markets |-> <<
            [ key |-> "batter_hits", outcomes |-> <<oXOver>> ],
            [ key |-> "batter_walks" ] >> ] >> ]

\* One player under two spellings of the name.
RTwoSpellings ==
    [ id |-> "e", bookmakers |-> <<
        [ title |-> "FD", markets |-> <<
            [ key |-> "batter_hits", outcomes |-> <<oxOver, oXOver>> ] >> ] >> ]

\* A non-empty response without bookmakers.
RNoBookmakers == [ id |-> "e" ]

\* The empty JSON object {}.
REmpty == <<>>

\* The responses get_event_props may return from response.json().
ResponseCatalogue ==
    << RScenario, ROutside, RMixedCase, RNoPrice, RNoName, RDuplicate,
       RTwoSpellings, RNoBookmakers, REmpty >>

-----------------------------------------------------------------------------
(* process_player_data and the body of the event loop *)

NewPlayer == [ categories |-> {}, props |-> <<>>, games |-> {}, bookmakers |-> {} ]

\* The entry appended to the player's props list.
PropInfo(category, prop_data) ==
    [ category  |-> category,
      bet_type  |-> prop_data.Bet_Type,
      line      |-> prop_data.Line,
      odds      |-> prop_data.Odds,
      bookmaker |-> prop_data.Bookmaker,
      game      |-> prop_data.Game ]

\* Mutant of process_player_data: props of a market key outside the 12
\* categories are not recorded.
process_player_dataKnownOnly(players, player_name, category, prop_data) ==
    IF category \notin prop_categories THEN players
    ELSE LET old == IF player_name \in DOMAIN players THEN players[player_name]
                    ELSE NewPlayer
             new == [ categories |-> old.categories \cup {category},
                      props      |-> Append(old.props, PropInfo(category, prop_data)),
                      games      |-> old.games \cup {prop_data.Game},
                      bookmakers |-> old.bookmakers \cup {prop_data.Bookmaker} ]
         IN  (player_name :> new) @@ players

\* Mutant of process_player_data: the prop that creates a player is not
\* appended to the new player's props.
process_player_dataDropsFirst(players, player_name, category, prop_data) ==
    LET old == IF player_name \in DOMAIN players THEN players[player_name]
               ELSE NewPlayer
        new == [ categories |-> old.categories \cup {category},
                 props      |-> IF player_name \in DOMAIN players
                                THEN Append(old.props, PropInfo(category, prop_data))
                                ELSE <<>>,
                 games      |-> old.games \cup {prop_data.Game},
                 bookmakers |-> old.bookmakers \cup {prop_data.Bookmaker} ]
    IN  (player_name :> new) @@ players

\* Mutant of process_player_data: a prop equal to one already held is not
\* appended again.
process_player_dataDedup(players, player_name, category, prop_data) ==
    LET old == IF player_name \in DOMAIN players THEN players[player_name]
               ELSE NewPlayer
        e   == PropInfo(category, prop_data)
        new == [ categories |-> old.categories \cup {category},
                 props      |-> IF \E j \in 1..Len(old.props) : old.props[j] = e
                                THEN old.props ELSE Append(old.props, e),
                 games      |-> old.games \cup {prop_data.Game},
                 bookmakers |-> old.bookmakers \cup {prop_data.Bookmaker} ]
    IN  (player_name :> new) @@ players

\* Mutant of process_player_data: the bookmakers set is overwritten, not added to.
process_player_dataLastBookmaker(players, player_name, category, prop_data) ==
    LET old == IF player_name \in DOMAIN players THEN players[player_name]
               ELSE NewPlayer
        new == [ categories |-> old.categories \cup {category},
                 props      |-> Append(old.props, PropInfo(category, prop_data)),
                 games      |-> old.games \cup {prop_data.Game},
                 bookmakers |-> {prop_data.Bookmaker} ]
    IN  (player_name :> new) @@ players

\* Mutant of process_player_data: the new entry is put in front of the list.
process_player_dataPrepends(players, player_name, category, prop_data) ==
    LET old == IF player_name \in DOMAIN players THEN players[player_name]
               ELSE NewPlayer
        new == [ categories |-> old.categories \cup {category},
                 props      |-> <<PropInfo(category, prop_data)>> \o old.props,
                 games      |-> old.games \cup {prop_data.Game},
                 bookmakers |-> old.bookmakers \cup {prop_data.Bookmaker} ]
    IN  (player_name :> new) @@ players

\* process_player_data(player_name, category, prop_data) on the dict `players`.
process_player_data(players, player_name, category, prop_data) ==
    LET old == IF player_name \in DOMAIN players THEN players[player_name]
               ELSE NewPlayer
        new == [ categories |-> old.categories \cup {category},
                 props      |-> Append(old.props, PropInfo(category, prop_data)),
                 games      |-> old.games \cup {prop_data.Game},
                 bookmakers |-> old.bookmakers \cup {prop_data.Bookmaker} ]
    IN  (player_name :> new) @@ players

\* f"{away_team} @ {home_team}"
GameLabel(event) == event.away_team \o " @ " \o event.home_team

\* Mutant of BetType: the side is stored capitalised.
BetTypeCapitalised(name) ==
    IF Lower(name) = over THEN <<"O", "v", "e", "r">>
    ELSE IF Lower(name) = under THEN <<"U", "n", "d", "e", "r">>
    ELSE name

\* The side stored as Bet_Type for an outcome name.
BetType(name) == name

\* The dict prop_data built for one outcome.
PropData(event, bookmaker, market, outcome) ==
    [ Event_ID    |-> event.id,
      Game        |-> GameLabel(event),
      Game_Time   |-> event.commence_time,
      Category    |-> market.key,
      Player      |-> Get(outcome, "description", "Unknown"),
      Bet_Type    |-> BetType(outcome.name),
      Line        |-> Get(outcome, "point", "N/A"),
      Odds        |-> outcome.price,
      Bookmaker   |-> bookmaker.title,
      Last_Update |-> Get(market, "last_update", Get(bookmaker, "last_update", "")) ]

\* outcome['name'] or outcome['price'] raises KeyError.
KeyErrorIn(outcome) == "name" \notin DOMAIN outcome \/ "price" \notin DOMAIN outcome

\* Mutant of RouteOver: the side is compared without lower().
RouteOverCaseSensitive(buckets, market_key, name, prop_data) ==
    IF market_key \in prop_categories /\ name = <<"O", "v", "e", "r">>
    THEN [buckets EXCEPT ![market_key] = Append(@, prop_data)]
    ELSE buckets

\* "Separate Over and Under props": the buckets after one prop_data.
RouteOver(buckets, market_key, name, prop_data) ==
    IF market_key \in prop_categories /\ Lower(name) = over
    THEN [buckets EXCEPT ![market_key] = Append(@, prop_data)]
    ELSE buckets

\* Mutant of RouteUnder: a plain `else` in place of `elif ... == 'under'`.
RouteUnderElse(buckets, market_key, name, prop_data) ==
    IF market_key \in prop_categories /\ Lower(name) # over
    THEN [buckets EXCEPT ![market_key] = Append(@, prop_data)]
    ELSE buckets

RouteUnder(buckets, market_key, name, prop_data) ==
    IF market_key \in prop_categories /\ Lower(name) # over /\ Lower(name) = under
    THEN [buckets EXCEPT ![market_key] = Append(@, prop_data)]
    ELSE buckets

\* The state the loops work on: the three data structures, the log of ingested
\* props, and whether an exception is propagating.
Acc(players, ov, un, log, exc) ==
    [ unique_players |-> players, over_props |-> ov, under_props |-> un,
      ingested |-> log, raised |-> exc ]

\* The body of `for outcome in market.get('outcomes', [])` for one outcome.
ProcessOutcome(acc, event, bookmaker, market, outcome) ==
    IF acc.raised THEN acc
    ELSE IF KeyErrorIn(outcome) THEN [acc EXCEPT !.raised = TRUE]
    ELSE LET prop_data == PropData(event, bookmaker, market, outcome)
         IN  Acc(process_player_data(acc.unique_players, prop_data.Player,
                                     market.key, prop_data),
                 RouteOver(acc.over_props, market.key, outcome.name, prop_data),
                 RouteUnder(acc.under_props, market.key, outcome.name, prop_data),
                 Append(acc.ingested, prop_data),
                 FALSE)

RECURSIVE ProcessOutcomes(_, _, _, _, _)
ProcessOutcomes(acc, event, bookmaker, market, outcomes) ==
    IF outcomes = <<>> THEN acc
    ELSE ProcessOutcomes(ProcessOutcome(acc, event, bookmaker, market, Head(outcomes)),
                         event, bookmaker, market, Tail(outcomes))

RECURSIVE ProcessMarkets(_, _, _, _)
ProcessMarkets(acc, event, bookmaker, markets) ==
    IF markets = <<>> THEN acc
    ELSE ProcessMarkets(
             ProcessOutcomes(acc, event, bookmaker, Head(markets),
                             Get(Head(markets), "outcomes", <<>>)),
             event, bookmaker, Tail(markets))

RECURSIVE ProcessBookmakers(_, _, _)
ProcessBookmakers(acc, event, bookmakers) ==
    IF bookmakers = <<>> THEN acc
    ELSE ProcessBookmakers(
             ProcessMarkets(acc, event, Head(bookmakers),
                            Get(Head(bookmakers), "markets", <<>>)),
             event, Tail(bookmakers))

\* `if props_data:` ... for a truthy response d of `event`.
ProcessResponse(acc, event, d) ==
    ProcessBookmakers(acc, event, Get(d, "bookmakers", <<>>))

-----------------------------------------------------------------------------
(* main() and fetch_all_props_to_excel *)

\* Mutant of EmptyCache: the cache dict is shared with an earlier analyzer and
\* still holds an entry.
StaleCache == (<<"Player X", "batter_hits">> :> "stats-1")

\* MLBPropsStatsAnalyzer.__init__: each cache starts as the empty dict.
EmptyCache == <<>>

Workers == 1..NumWorkers

\* The (player, category) keys the enrichment workers ask for.
StatsKeys == { <<"Player X", "batter_hits">>, <<"Player Y", "pitcher_outs">> }

\* What the upstream stats source may answer for a key; a failed lookup is
\* recorded as "not found".
StatsValues == { "stats-1", "stats-2", "not found" }

\* No analyzer exists, no enrichment worker runs.
NoAnalyzer ==
    /\ player_stats_cache = EmptyCache
    /\ player_id_cache = EmptyCache
    /\ game_logs_cache = EmptyCache
    /\ cache_lock = None
    /\ wpc = [w \in Workers |-> "idle"]
    /\ wkey = [w \in Workers |-> None]
    /\ wresult = [w \in Workers |-> None]
    /\ fetch_count = [k \in StatsKeys |-> 0]

\* The state when main() is entered: the fetcher is not constructed yet; its
\* __init__ leaves unique_players empty and one empty bucket per category.
Init ==
    /\ pc = "main"
    /\ api_key \in BOOLEAN
    /\ max_events \in MaxEventsArgs
    /\ listing_failed = FALSE
    /\ listed = 0
    /\ events = <<>>
    /\ i = 0
    /\ events_summary = <<>>
    /\ retry = 0
    /\ props_data = None
    /\ calls = 0
    /\ waited = 0
    /\ delays = 0
    /\ unique_players = <<>>
    /\ over_props = EmptyBuckets
    /\ under_props = EmptyBuckets
    /\ ingested = <<>>
    /\ responses = <<>>
    /\ excel_filename = ""
    /\ report_created = FALSE
    /\ exit_status = 0
    /\ raised = FALSE
    /\ NoAnalyzer

\* if not API_KEY: sys.exit(1)
MainNoApiKey ==
    /\ pc = "main"
    /\ ~api_key
    /\ pc' = "exited"
    /\ exit_status' = 1
    /\ UNCHANGED <<api_key, max_events, listing_failed, listed, events, i,
                   events_summary, retry, props_data, calls, waited, delays,
                   unique_players, over_props, under_props, ingested, responses,
                   excel_filename, report_created, raised, cacheVars>>

\* Mutant of SliceTo: the slice keeps one event more.
SliceToOneMore(evs, k) == SubSeq(evs, 1, IF k + 1 < Len(evs) THEN k + 1 ELSE Len(evs))

\* events[:max_events] for max_events >= 0
SliceTo(evs, k) == SubSeq(evs, 1, IF k < Len(evs) THEN k ELSE Len(evs))

\* `if max_events: events = events[:max_events]`
LimitEvents(evs, limit) ==
    IF limit # None /\ limit[1] # 0 THEN SliceTo(evs, limit[1]) ELSE evs

\* The entry appended to events_summary.
EventSummary(event) ==
    [ Event_ID  |-> event.id,
      Away_Team |-> event.away_team,
      Home_Team |-> event.home_team,
      Game_Time |-> event.commence_time,
      Matchup   |-> GameLabel(event) ]

\* The start of the loop body for the k-th event of evs, up to the first call
\* of get_event_props.
EnterEvent(evs, k) ==
    /\ i' = k
    /\ events_summary' = Append(events_summary, EventSummary(evs[k]))
    /\ retry' = 0
    /\ props_data' = None
    /\ calls' = 0
    /\ pc' = "fetch"

\* Mutant of AfterEvent: the delay is taken after the last event too.
AfterEventAlwaysDelay == IF i <= Len(events) THEN "delay" ELSE "excel"

\* The end of the loop body: `if i < len(events): time.sleep(...)`, else the
\* loop is over and the workbook is written.
AfterEvent == IF i < Len(events) THEN "delay" ELSE "excel"

\* Mutant of FetchAllPropsBegin: the `if not events: return ""` guard is
\* missing, the run goes on to write the workbook.
FetchAllPropsBeginNoGuard(listing) ==
    /\ unique_players' = <<>>
    /\ over_props' = EmptyBuckets
    /\ under_props' = EmptyBuckets
    /\ ingested' = <<>>
    /\ responses' = <<>>
    /\ IF listing = <<>>
       THEN /\ pc' = "excel"
            /\ UNCHANGED <<events, i, events_summary, retry, props_data, calls,
                           excel_filename, exit_status>>
       ELSE /\ events' = LimitEvents(listing, max_events)
            /\ EnterEvent(LimitEvents(listing, max_events), 1)
            /\ UNCHANGED <<excel_filename, exit_status>>
    /\ UNCHANGED <<api_key, max_events, waited, delays, report_created, raised,
                   cacheVars>>

\* Mutant of FetchAllPropsBegin: the "Reset data structures" block is missing.
FetchAllPropsBeginNoReset(listing) ==
    /\ ingested' = <<>>
    /\ responses' = <<>>
    /\ IF listing = <<>>
       THEN /\ excel_filename' = ""
            /\ pc' = "exited"
            /\ exit_status' = 1
            /\ UNCHANGED <<events, i, events_summary, retry, props_data, calls>>
       ELSE /\ events' = LimitEvents(listing, max_events)
            /\ EnterEvent(LimitEvents(listing, max_events), 1)
            /\ UNCHANGED <<excel_filename, exit_status>>
    /\ UNCHANGED <<api_key, max_events, waited, delays, report_created, raised,
                   unique_players, over_props, under_props, cacheVars>>

\* fetch_all_props_to_excel from its first line to the first get_event_props
\* call, given what get_mlb_events returned; with no events it returns "" and
\* main() exits with status 1.
FetchAllPropsBegin(listing) ==
    /\ unique_players' = <<>>
    /\ over_props' = EmptyBuckets
    /\ under_props' = EmptyBuckets
    /\ ingested' = <<>>
    /\ responses' = <<>>
    /\ IF listing = <<>>
       THEN /\ excel_filename' = ""
            /\ pc' = "exited"
            /\ exit_status' = 1
            /\ UNCHANGED <<events, i, events_summary, retry, props_data, calls>>
       ELSE /\ events' = LimitEvents(listing, max_events)
            /\ EnterEvent(LimitEvents(listing, max_events), 1)
            /\ UNCHANGED <<excel_filename, exit_status>>
    /\ UNCHANGED <<api_key, max_events, waited, delays, report_created, raised,
                   cacheVars>>

\* get_mlb_events catches a RequestException and returns [].
ListingFails ==
    /\ pc = "main"
    /\ api_key
    /\ listing_failed' = TRUE
    /\ listed' = 0
    /\ FetchAllPropsBegin(<<>>)

\* get_mlb_events returns the n events of the listing.
ListingSucceeds ==
    /\ pc = "main"
    /\ api_key
    /\ \E n \in 0..MaxEvents :
        /\ listed' = n
        /\ FetchAllPropsBegin(Listing(n))
    /\ UNCHANGED listing_failed

\* get_event_props returns a non-empty response: the retry loop breaks and the
\* response is processed; a KeyError of an outcome propagates out of
\* fetch_all_props_to_excel and out of main().
GetEventPropsSucceeds ==
    /\ pc = "fetch"
    /\ \E k \in 1..Len(ResponseCatalogue) :
        LET d == ResponseCatalogue[k]
            acc == ProcessResponse(
                       Acc(unique_players, over_props, under_props, ingested, FALSE),
                       events[i], d)
        IN  /\ DOMAIN d # {}
            /\ props_data' = Some(d)
            /\ responses' = Append(responses, Some(d))
            /\ unique_players' = acc.unique_players
            /\ over_props' = acc.over_props
            /\ under_props' = acc.under_props
            /\ ingested' = acc.ingested
            /\ raised' = acc.raised
            /\ IF acc.raised
               THEN pc' = "exited" /\ exit_status' = 1
               ELSE pc' = AfterEvent /\ UNCHANGED exit_status
    /\ calls' = calls + 1
    /\ waited' = 0
    /\ UNCHANGED <<api_key, max_events, listing_failed, listed, events, i,
                   events_summary, retry, delays, excel_filename, report_created,
                   cacheVars>>

\* Mutant of NextAttempt: the bound of the retry loop is off by one.
NextAttemptOffByOne ==
    IF retry < max_retries
    THEN /\ retry' = retry + 1
         /\ pc' = "fetch"
         /\ UNCHANGED responses
    ELSE /\ pc' = AfterEvent
         /\ responses' = Append(responses, None)
         /\ UNCHANGED retry

\* The retry loop after an attempt that left props_data falsy and did not raise.
NextAttempt ==
    IF retry < max_retries - 1
    THEN /\ retry' = retry + 1
         /\ pc' = "fetch"
         /\ UNCHANGED responses
    ELSE /\ pc' = AfterEvent
         /\ responses' = Append(responses, None)
         /\ UNCHANGED retry

\* get_event_props returns None (it caught a RequestException) or the empty
\* response {}: `if props_data` is false, the loop goes to its next round.
GetEventPropsFalsy ==
    /\ pc = "fetch"
    /\ \E v \in {None, Some(REmpty)} : props_data' = v
    /\ NextAttempt
    /\ calls' = calls + 1
    /\ waited' = 0
    /\ UNCHANGED <<api_key, max_events, listing_failed, listed, events, i,
                   events_summary, delays, unique_players, over_props, under_props,
                   ingested, excel_filename, report_created, exit_status, raised,
                   cacheVars>>

\* Mutant of ExceptClause: the exception of the last attempt ends the run.
ExceptClauseAborts ==
    IF retry < max_retries - 1
    THEN /\ pc' = "backoff"
         /\ UNCHANGED responses
    ELSE /\ pc' = "exited"
         /\ responses' = Append(responses, None)

\* The `except Exception` clause of the retry loop.
ExceptClause ==
    IF retry < max_retries - 1
    THEN /\ pc' = "backoff"
         /\ UNCHANGED responses
    ELSE /\ pc' = AfterEvent
         /\ responses' = Append(responses, None)

\* get_event_props raises an exception that is no RequestException.
GetEventPropsRaises ==
    /\ pc = "fetch"
    /\ ExceptClause
    /\ calls' = calls + 1
    /\ waited' = 0
    /\ UNCHANGED <<api_key, max_events, listing_failed, listed, events, i,
                   events_summary, retry, props_data, delays, unique_players,
                   over_props, under_props, ingested, excel_filename,
                   report_created, exit_status, raised, cacheVars>>

\* time.sleep(2), then `continue` to the next round of the retry loop.
BackoffSleep ==
    /\ pc = "backoff"
    /\ waited' = waited + BackoffTenths
    /\ retry' = retry + 1
    /\ pc' = "fetch"
    /\ UNCHANGED <<api_key, max_events, listing_failed, listed, events, i,
                   events_summary, props_data, calls, delays, unique_players,
                   over_props, under_props, ingested, responses, excel_filename,
                   report_created, exit_status, raised, cacheVars>>

\* time.sleep(delay_between_requests), then the loop body of the next event.
InterEventDelay ==
    /\ pc = "delay"
    /\ waited' = waited + DelayTenths
    /\ delays' = delays + 1
    /\ EnterEvent(events, i + 1)
    /\ UNCHANGED <<api_key, max_events, listing_failed, listed, events,
                   unique_players, over_props, under_props, ingested, responses,
                   excel_filename, report_created, exit_status, raised, cacheVars>>

\* create_excel_workbook saves the workbook: fetch_all_props_to_excel returns
\* the file name and main() constructs the analyzer.
CreateExcelSucceeds ==
    /\ pc = "excel"
    /\ report_created' = TRUE
    /\ excel_filename' = "mlb_props.xlsx"
    /\ player_stats_cache' = EmptyCache
    /\ player_id_cache' = EmptyCache
    /\ game_logs_cache' = EmptyCache
    /\ cache_lock' = None
    /\ pc' = "analysis"
    /\ UNCHANGED <<api_key, max_events, listing_failed, listed, events, i,
                   events_summary, retry, props_data, calls, waited, delays,
                   unique_players, over_props, under_props, ingested, responses,
                   exit_status, raised, wpc, wkey, wresult, fetch_count>>

\* create_excel_workbook raises: fetch_all_props_to_excel catches it and returns
\* "", and main() exits with status 1.
CreateExcelFails ==
    /\ pc = "excel"
    /\ excel_filename' = ""
    /\ pc' = "exited"
    /\ exit_status' = 1
    /\ UNCHANGED <<api_key, max_events, listing_failed, listed, events, i,
                   events_summary, retry, props_data, calls, waited, delays,
                   unique_players, over_props, under_props, ingested, responses,
                   report_created, raised, cacheVars>>

\* What load_props_data() may return.
LoadPropsResults == BOOLEAN

\* What process_all_props() may return: None, an empty frame, a frame with rows.
ProcessAllPropsResults == {"None", "empty", "rows"}

\* run_full_analysis: None when loading fails or nothing was analyzed, else the
\* output file.
run_full_analysis(loaded, analyzed_data, output_filename) ==
    IF ~loaded THEN None
    ELSE IF analyzed_data \in {"None", "empty"} THEN None
    ELSE Some(output_filename)

\* analyzer.run_full_analysis(...) and the end of main(): `if result_file` ...
\* else sys.exit(1).
RunFullAnalysis ==
    /\ pc = "analysis"
    /\ \E loaded \in LoadPropsResults, analyzed_data \in ProcessAllPropsResults :
        exit_status' =
            IF run_full_analysis(loaded, analyzed_data, "cheat_sheets.xlsx") # None
            THEN 0 ELSE 1
    /\ pc' = "exited"
    /\ UNCHANGED <<api_key, max_events, listing_failed, listed, events, i,
                   events_summary, retry, props_data, calls, waited, delays,
                   unique_players, over_props, under_props, ingested, responses,
                   excel_filename, report_created, raised, cacheVars>>

Next ==
    \/ MainNoApiKey
    \/ ListingFails
    \/ ListingSucceeds
    \/ GetEventPropsSucceeds
    \/ GetEventPropsFalsy
    \/ GetEventPropsRaises
    \/ BackoffSleep
    \/ InterEventDelay
    \/ CreateExcelSucceeds
    \/ CreateExcelFails
    \/ RunFullAnalysis

Spec == Init /\ [][Next]_vars

-----------------------------------------------------------------------------
(* The stats cache under concurrent enrichment workers: getStats *)

\* The analyzer as constructed, its workers about to ask for stats.
InitCache ==
    /\ pc = "analysis"
    /\ api_key = TRUE
    /\ max_events = None
    /\ listing_failed = FALSE
    /\ listed = 0
    /\ events = <<>>
    /\ i = 0
    /\ events_summary = <<>>
    /\ retry = 0
    /\ props_data = None
    /\ calls = 0
    /\ waited = 0
    /\ delays = 0
    /\ unique_players = <<>>
    /\ over_props = EmptyBuckets
    /\ under_props = EmptyBuckets
    /\ ingested = <<>>
    /\ responses = <<>>
    /\ excel_filename = "mlb_props.xlsx"
    /\ report_created = TRUE
    /\ exit_status = 0
    /\ raised = FALSE
    /\ player_stats_cache = EmptyCache
    /\ player_id_cache = EmptyCache
    /\ game_logs_cache = EmptyCache
    /\ cache_lock = None
    /\ wpc = [w \in Workers |-> "idle"]
    /\ wkey = [w \in Workers |-> None]
    /\ wresult = [w \in Workers |-> None]
    /\ fetch_count = [k \in StatsKeys |-> 0]

\* Worker w is handed a (player, category) key and calls getStats.
GetStatsCall(w) ==
    /\ wpc[w] = "idle"
    /\ \E k \in StatsKeys : wkey' = [wkey EXCEPT ![w] = Some(k)]
    /\ wpc' = [wpc EXCEPT ![w] = "read"]
    /\ UNCHANGED <<fetchVars, player_stats_cache, player_id_cache, game_logs_cache,
                   cache_lock, wresult, fetch_count>>

\* The read of an already populated key; on a miss the worker goes for the lock.
GetStatsRead(w) ==
    /\ wpc[w] = "read"
    /\ IF wkey[w][1] \in DOMAIN player_stats_cache
       THEN /\ wresult' = [wresult EXCEPT ![w] = Some(player_stats_cache[wkey[w][1]])]
            /\ wpc' = [wpc EXCEPT ![w] = "done"]
       ELSE /\ wpc' = [wpc EXCEPT ![w] = "acquire"]
            /\ UNCHANGED wresult
    /\ UNCHANGED <<fetchVars, player_stats_cache, player_id_cache, game_logs_cache,
                   cache_lock, wkey, fetch_count>>

\* threading.Lock.acquire: the worker blocks until the lock is free.
LockAcquire(w) ==
    /\ wpc[w] = "acquire"
    /\ cache_lock = None
    /\ cache_lock' = Some(w)
    /\ wpc' = [wpc EXCEPT ![w] = "check"]
    /\ UNCHANGED <<fetchVars, player_stats_cache, player_id_cache, game_logs_cache,
                   wkey, wresult, fetch_count>>

\* Inside the lock: the check of the check-populate sequence. A key populated in
\* the meantime is returned and the lock released; otherwise the upstream fetch
\* is issued, the lock still held.
LockedCheck(w) ==
    /\ wpc[w] = "check"
    /\ IF wkey[w][1] \in DOMAIN player_stats_cache
       THEN /\ wresult' = [wresult EXCEPT ![w] = Some(player_stats_cache[wkey[w][1]])]
            /\ wpc' = [wpc EXCEPT ![w] = "done"]
            /\ cache_lock' = None
            /\ UNCHANGED fetch_count
       ELSE /\ fetch_count' = [fetch_count EXCEPT ![wkey[w][1]] = @ + 1]
            /\ wpc' = [wpc EXCEPT ![w] = "fetching"]
            /\ UNCHANGED <<wresult, cache_lock>>
    /\ UNCHANGED <<fetchVars, player_stats_cache, player_id_cache, game_logs_cache,
                   wkey>>

\* The upstream fetch returns (a failure as "not found"): the entry is
\* populated, the lock released, the value returned.
Populate(w) ==
    /\ wpc[w] = "fetching"
    /\ \E v \in StatsValues :
        /\ player_stats_cache' = (wkey[w][1] :> v) @@ player_stats_cache
        /\ wresult' = [wresult EXCEPT ![w] = Some(v)]
    /\ cache_lock' = None
    /\ wpc' = [wpc EXCEPT ![w] = "done"]
    /\ UNCHANGED <<fetchVars, player_id_cache, game_logs_cache, wkey, fetch_count>>

NextCache ==
    \E w \in Workers :
        \/ GetStatsCall(w)
        \/ GetStatsRead(w)
        \/ LockAcquire(w)
        \/ LockedCheck(w)
        \/ Populate(w)

CacheSpec == InitCache /\ [][NextCache]_vars

-----------------------------------------------------------------------------
(* Vocabulary of the properties *)

\* str.upper() on one character of 'over' / 'under'.
UpperChar(c) ==
    CASE c = "o" -> "O"
      [] c = "v" -> "V"
      [] c = "e" -> "E"
      [] c = "r" -> "R"
      [] c = "u" -> "U"
      [] c = "n" -> "N"
      [] c = "d" -> "D"
      [] OTHER -> c

\* s equals the lower-case word w in some letter case.
SameIgnoringCase(s, w) ==
    /\ Len(s) = Len(w)
    /\ \A k \in 1..Len(w) : s[k] = w[k] \/ s[k] = UpperChar(w[k])

Over == <<"O", "v", "e", "r">>

Under == <<"U", "n", "d", "e", "r">>

RECURSIVE Concat(_)
\* The concatenation of a sequence of sequences.
Concat(ss) == IF ss = <<>> THEN <<>> ELSE Head(ss) \o Concat(Tail(ss))

\* The outcomes of one bookmaker, in the order of the response.
OutcomesOfBookmaker(b) ==
    Concat([k \in 1..Len(Get(b, "markets", <<>>)) |->
               Get(b.markets[k], "outcomes", <<>>)])

\* All outcomes of a response, in the order of the response.
OutcomesOf(d) ==
    Concat([k \in 1..Len(Get(d, "bookmakers", <<>>)) |->
               OutcomesOfBookmaker(d.bookmakers[k])])

\* An outcome with its required fields.
WellFormed(o) == {"name", "price"} \subseteq DOMAIN o

\* The outcomes of every response received so far, event by event.
OutcomesReceived ==
    Concat([k \in 1..Len(responses) |->
               IF responses[k] = None THEN <<>> ELSE OutcomesOf(responses[k][1])])

RECURSIVE SumLen(_, _)
\* The sum of the lengths of the props lists of the players in the set ps.
SumLen(players, ps) ==
    IF ps = {} THEN 0
    ELSE LET p == CHOOSE q \in ps : TRUE
         IN  Len(players[p].props) + SumLen(players, ps \ {p})

\* Total number of props held by the player aggregates.
TotalProps == SumLen(unique_players, DOMAIN unique_players)

\* fetch_all_props_to_excel has returned or was left by an exception.
Finished == pc \in {"analysis", "exited"}

-----------------------------------------------------------------------------
(* Properties *)

\* C1: for every event get_event_props is called at least once and at most 3
\* times, and no call follows the first call that returned a non-empty response
\* (a call is only ever pending while fewer than 3 were made and props_data is
\* still falsy).
C1_AttemptsBounded ==
    /\ calls \in 0..max_retries
    /\ pc = "fetch" => calls < max_retries /\ ~Truthy(props_data)
    /\ pc = "backoff" => calls \in 1..(max_retries - 1) /\ ~Truthy(props_data)
    /\ i >= 1 /\ pc \in {"delay", "excel", "analysis", "exited"} => calls >= 1
    /\ Truthy(props_data) => pc \notin {"fetch", "backoff"}

\* C1 witness: an event whose third call returned the non-empty response.
C1_Witness ==
    /\ calls = max_retries
    /\ Truthy(props_data)
    /\ pc = "delay"

\* C2 (as claimed): whenever another attempt for the same event is about to
\* follow a failed one, the 2-second back-off was slept since the failed attempt.
C2_BackoffBetweenAttempts ==
    pc = "fetch" /\ calls > 0 => waited >= BackoffTenths

\* C3: when the third attempt for an event fails too (None, {} or an exception),
\* no exception escapes, unique_players, over_props and under_props are left as
\* they were, the event keeps its events_summary entry, and the loop goes on to
\* the inter-event delay before the next event (or, after the last event, to the
\* workbook).
C3_ExhaustedEventContributesNothing ==
    [][ (pc = "fetch" /\ calls = max_retries - 1 /\ ~Truthy(props_data'))
        => /\ ~raised'
           /\ unique_players' = unique_players
           /\ over_props' = over_props
           /\ under_props' = under_props
           /\ ingested' = ingested
           /\ events_summary' = events_summary
           /\ Len(events_summary) = i
           /\ events_summary[i].Event_ID = events[i].id
           /\ responses' = Append(responses, None)
           /\ pc' = (IF i < Len(events) THEN "delay" ELSE "excel")
      ]_vars

\* C3 witness: the first event used up its three attempts and the run has moved
\* on to fetch the second event.
C3_Witness ==
    /\ i = 2
    /\ pc = "fetch"
    /\ responses = <<None>>
    /\ Len(events_summary) = 2
    /\ unique_players = <<>>

\* C4 (as claimed, with max_events = None as main() passes it): when the run is
\* over, every event whose fetch succeeded has contributed all its outcomes to
\* the player aggregates, and events_summary has one entry per listed event.
C4_AllEventsProcessed ==
    Finished /\ max_events = None /\ listed > 0
    => /\ Len(events_summary) = listed
       /\ TotalProps = Len(SelectSeq(OutcomesReceived, WellFormed))

\* C5 (as claimed): a malformed outcome is skipped and nothing else is lost:
\* no exception ends the run, and every well-formed outcome of every response
\* received so far has been ingested.
C5_MalformedOutcomeSkipped ==
    /\ ~raised
    /\ Len(ingested) = Len(SelectSeq(OutcomesReceived, WellFormed))

\* C6 (as claimed): once the listing has returned events, no later error makes
\* the process end with a nonzero exit status or with an escaped exception.
C6_OnlyListingFailureExitsNonzero ==
    pc = "exited" /\ listed > 0 => exit_status = 0 /\ ~raised

\* C7: when the listing call fails, no get_event_props call is issued, no
\* report is created, fetch_all_props_to_excel returns "" and main exits with
\* status 1.
C7_ListingFailureAborts ==
    listing_failed
    => /\ pc = "exited"
       /\ exit_status = 1
       /\ excel_filename = ""
       /\ ~report_created
       /\ calls = 0
       /\ i = 0
       /\ events_summary = <<>>
       /\ responses = <<>>

\* C7 witness: the run after a failed listing call.
C7_Witness == listing_failed /\ pc = "exited"

\* The props ingested so far that belong to bucket c of the side `side`.
Routed(c, side) ==
    LET Belongs(p) == p.Category = c /\ SameIgnoringCase(p.Bet_Type, side)
    IN  SelectSeq(ingested, Belongs)

\* C9: an ingested prop is in a bucket exactly when its market key is one of the
\* 12 categories and its side is over or under in some letter case; it is then
\* once in the bucket of its own category on its own side and in no other: each
\* bucket holds exactly the ingested props of its category and side, and the
\* mappings have no key but the 12 categories.
C9_RoutedToOwnBucketOnly ==
    /\ DOMAIN over_props = prop_categories
    /\ DOMAIN under_props = prop_categories
    /\ \A c \in prop_categories :
        /\ over_props[c] = Routed(c, over)
        /\ under_props[c] = Routed(c, under)

\* C9 witness: props of every kind were ingested: an upper-case OVER, a
\* lower-case under, a side that is neither, and a market key outside the 12.
C9_Witness ==
    /\ \E k \in 1..Len(ingested) : ingested[k].Bet_Type = <<"O", "V", "E", "R">>
    /\ \E k \in 1..Len(ingested) : ingested[k].Bet_Type = <<"Y", "e", "s">>
    /\ \E k \in 1..Len(ingested) :
        /\ ingested[k].Category \notin prop_categories
        /\ ingested[k].Bet_Type = under
    /\ over_props["pitcher_strikeouts"] # <<>>

\* Every record of every bucket of `buckets` has a side satisfying P.
AllSides(buckets, P(_)) ==
    \A c \in DOMAIN buckets : \A k \in 1..Len(buckets[c]) : P(buckets[c][k].Bet_Type)

\* C10 (as claimed): the stored side is normalised: every record in an over
\* bucket has side 'Over', every record in an under bucket has side 'Under'.
C10_SideNormalised ==
    LET IsOver(b) == b = Over
        IsUnder(b) == b = Under
    IN  AllSides(over_props, IsOver) /\ AllSides(under_props, IsUnder)

\* The bet_type entries of all players' props equal the Bet_Type of the ingested
\* props: the k-th prop of player p is the k-th ingested prop of p.
AggregateSidesAsIngested ==
    \A p \in DOMAIN unique_players :
        LET OfPlayer(d) == d.Player = p
            mine == SelectSeq(ingested, OfPlayer)
        IN  /\ Len(unique_players[p].props) = Len(mine)
            /\ \A k \in 1..Len(mine) :
                unique_players[p].props[k].bet_type = mine[k].Bet_Type

\* C10 (amended): the stored side is the raw outcome name, unchanged: the sides
\* of the ingested props are the names of the well-formed outcomes received, in
\* order; the player aggregates hold the same sides; and every record in an over
\* (under) bucket has a side that equals 'over' ('under') ignoring letter case.
C10_SideStoredRaw ==
    LET IsOver(b) == SameIgnoringCase(b, over)
        IsUnder(b) == SameIgnoringCase(b, under)
        raw == SelectSeq(OutcomesReceived, WellFormed)
    IN  /\ AllSides(over_props, IsOver)
        /\ AllSides(under_props, IsUnder)
        /\ AggregateSidesAsIngested
        /\ ~raised =>
            /\ Len(ingested) = Len(raw)
            /\ \A k \in 1..Len(raw) : ingested[k].Bet_Type = raw[k].name

\* C10 witness: an over bucket holds a record whose side is the upper-case OVER.
C10_Witness ==
    /\ Len(over_props["pitcher_strikeouts"]) > 0
    /\ over_props["pitcher_strikeouts"][1].Bet_Type = <<"O", "V", "E", "R">>
    /\ "Player Y" \in DOMAIN unique_players
    /\ unique_players["Player Y"].props[1].bet_type = <<"O", "V", "E", "R">>

\* C8: with the stats cache initially empty, under every interleaving of the
\* workers the upstream fetch is issued at most once per key, exactly once for a
\* key once a worker has its value, and all workers that asked for the same key
\* hold the same value.
C8_SingleFetchPerKey ==
    /\ \A k \in StatsKeys : fetch_count[k] <= 1
    /\ \A w \in Workers :
        wpc[w] = "done" =>
            /\ fetch_count[wkey[w][1]] = 1
            /\ wresult[w] # None
    /\ \A w1, w2 \in Workers :
        wpc[w1] = "done" /\ wpc[w2] = "done" /\ wkey[w1] = wkey[w2]
            => wresult[w1] = wresult[w2]

\* C8 witness: all workers asked for the same key and all have returned.
C8_Witness ==
    /\ \A w \in Workers : wpc[w] = "done"
    /\ \A w \in Workers : wkey[w] = Some(<<"Player X", "batter_hits">>)
    /\ fetch_count[<<"Player X", "batter_hits">>] = 1

-----------------------------------------------------------------------------
(* Properties of the aggregation *)

\* The outcomes the loops have gone through: all outcomes received, up to the
\* first malformed one (whose KeyError ended the run).
ProcessedOutcomes ==
    LET all == OutcomesReceived
        bad == {k \in 1..Len(all) : ~WellFormed(all[k])}
    IN  IF bad = {} THEN all
        ELSE SubSeq(all, 1, (CHOOSE k \in bad : \A j \in bad : k <= j) - 1)

\* The player name of a raw outcome.
PlayerNameOf(o) == IF "description" \in DOMAIN o THEN o.description ELSE "Unknown"

\* The player names that occur in the responses.
PlayerNames == {"Player X", "Player Y", "player x", "Unknown"}

RECURSIVE SumBuckets(_, _)
\* The sum of the lengths of the buckets of the categories cs.
SumBuckets(buckets, cs) ==
    IF cs = {} THEN 0
    ELSE LET c == CHOOSE x \in cs : TRUE
         IN  Len(buckets[c]) + SumBuckets(buckets, cs \ {c})

\* Total number of records in all over and under buckets.
BucketTotal ==
    SumBuckets(over_props, DOMAIN over_props) + SumBuckets(under_props, DOMAIN under_props)

\* A side that is over or under in some letter case.
RecognisedSide(b) == SameIgnoringCase(b, over) \/ SameIgnoringCase(b, under)

\* C11: an outcome whose market key is outside the 12 categories still creates
\* or updates its player's aggregate (the key is among the player's categories,
\* the prop among the player's props), it is in no over or under bucket (the
\* buckets hold only the in-category props with a recognised side), and the
\* mappings get no key beyond the 12 categories.
C11_OutsideCategoryAggregatedNotBucketed ==
    /\ \A k \in 1..Len(ingested) :
        LET d == ingested[k]
        IN  d.Category \notin prop_categories =>
                /\ d.Player \in DOMAIN unique_players
                /\ d.Category \in unique_players[d.Player].categories
                /\ \E j \in 1..Len(unique_players[d.Player].props) :
                    LET e == unique_players[d.Player].props[j]
                    IN  /\ e.category = d.Category
                        /\ e.bet_type = d.Bet_Type
                        /\ e.line = d.Line
                        /\ e.odds = d.Odds
                        /\ e.bookmaker = d.Bookmaker
                        /\ e.game = d.Game
    /\ DOMAIN over_props = prop_categories
    /\ DOMAIN under_props = prop_categories
    /\ \A c \in prop_categories :
        /\ \A j \in 1..Len(over_props[c]) : over_props[c][j].Category = c
        /\ \A j \in 1..Len(under_props[c]) : under_props[c][j].Category = c
    /\ LET InCategory(d) == d.Category \in prop_categories /\ RecognisedSide(d.Bet_Type)
       IN  BucketTotal = Len(SelectSeq(ingested, InCategory))

\* C11 witness: the only response so far had the market batter_walks: its two
\* players exist with that category, and every bucket is empty.
C11_Witness ==
    /\ Len(ingested) = 2
    /\ \A k \in 1..Len(ingested) : ingested[k].Category = "batter_walks"
    /\ DOMAIN unique_players = {"Player X", "Player Y"}
    /\ unique_players["Player X"].categories = {"batter_walks"}
    /\ Len(unique_players["Player Y"].props) = 1
    /\ BucketTotal = 0

\* C12: for every player name p, unique_players[p]['props'] is as long as the
\* number of outcomes processed so far whose player name is exactly p, and p is
\* a key of unique_players exactly when that number is at least 1.
C12_PropsCountPerPlayer ==
    /\ DOMAIN unique_players \subseteq PlayerNames
    /\ \A p \in PlayerNames :
        LET Mine(o) == PlayerNameOf(o) = p
            n == Len(SelectSeq(ProcessedOutcomes, Mine))
        IN  /\ p \in DOMAIN unique_players <=> n >= 1
            /\ p \in DOMAIN unique_players => Len(unique_players[p].props) = n

\* C12 witness: "Player X" and "player x" are two players, with different
\* numbers of props, beside a player without description.
C12_Witness ==
    /\ {"Player X", "player x", "Unknown"} \subseteq DOMAIN unique_players
    /\ Len(unique_players["player x"].props) = 1
    /\ Len(unique_players["Player X"].props) >= 2

\* Every prop held by a player aggregate has a category among the 12 and a side
\* that is over or under.
AllPropsRecognised ==
    \A p \in DOMAIN unique_players :
        \A k \in 1..Len(unique_players[p].props) :
            /\ unique_players[p].props[k].category \in prop_categories
            /\ RecognisedSide(unique_players[p].props[k].bet_type)

\* C13: at every point of a run the over and under buckets together hold at
\* most as many records as there are normalised props (the sum of the players'
\* props lengths), and exactly as many precisely when every normalised prop has
\* a category among the 12 and a side that is over or under.
C13_BucketsAtMostProps ==
    /\ BucketTotal <= TotalProps
    /\ BucketTotal = TotalProps <=> AllPropsRecognised

\* C13 witness: props were bucketed, and a prop with another side or category
\* keeps the buckets strictly smaller than the aggregates.
C13_Witness ==
    /\ BucketTotal > 0
    /\ BucketTotal < TotalProps
    /\ ~AllPropsRecognised

\* C14: while event i is being fetched i-1 inter-event delays have been taken,
\* each after the previous event was fully processed (whatever its fetch gave)
\* and before the first fetch of the next; the delay is pending only after an
\* event that is not the last; and once the loop over n events is over exactly
\* n-1 delays have occurred.
C14_DelaysBetweenEvents ==
    /\ pc \in {"fetch", "backoff", "delay"} => delays = i - 1
    /\ pc = "delay" => i < Len(events) /\ Len(responses) = i
    /\ pc = "fetch" /\ calls = 0 =>
        /\ Len(responses) = i - 1
        /\ i > 1 => waited = DelayTenths
    /\ pc \in {"excel", "analysis"} =>
        /\ i = Len(events)
        /\ Len(responses) = Len(events)
        /\ delays = Len(events) - 1
    /\ pc = "exited" /\ events # <<>> /\ ~raised => delays = Len(events) - 1

\* C14 witness: a run over 3 events, the first failed and the second
\* succeeded, has taken 2 delays when its loop is over.
C14_Witness ==
    /\ pc = "excel"
    /\ Len(events) = 3
    /\ delays = 2
    /\ responses[1] = None
    /\ responses[2] # None

\* C15: ingesting an already ingested prop of a player once more appends an
\* equal entry to that player's props (one more entry), creates no player, and
\* leaves the player's categories, games and bookmakers and every other player
\* as they were; so a bookmaker quoting the same market twice leaves two equal
\* entries.
C15_ReingestAppendsDuplicate ==
    /\ \A k \in 1..Len(ingested) :
        LET d == ingested[k]
            p == d.Player
            old == unique_players[p]
            after == process_player_data(unique_players, p, d.Category, d)
        IN  /\ DOMAIN after = DOMAIN unique_players
            /\ Len(after[p].props) = Len(old.props) + 1
            /\ SubSeq(after[p].props, 1, Len(old.props)) = old.props
            /\ \E j \in 1..Len(old.props) :
                old.props[j] = after[p].props[Len(old.props) + 1]
            /\ after[p].categories = old.categories
            /\ after[p].games = old.games
            /\ after[p].bookmakers = old.bookmakers
            /\ \A q \in DOMAIN unique_players \ {p} : after[q] = unique_players[q]
    /\ responses = <<Some(RDuplicate)>> =>
        /\ DOMAIN unique_players = {"Player X"}
        /\ Len(unique_players["Player X"].props) = 3
        /\ unique_players["Player X"].props[1] = unique_players["Player X"].props[2]
        /\ unique_players["Player X"].categories = {"batter_hits"}
        /\ unique_players["Player X"].bookmakers = {"DK", "FD"}

\* C15 witness: a player holds the same prop twice, beside another player.
C15_Witness ==
    /\ "Player X" \in DOMAIN unique_players
    /\ "Player Y" \in DOMAIN unique_players
    /\ Len(unique_players["Player X"].props) >= 2
    /\ unique_players["Player X"].props[1] = unique_players["Player X"].props[2]

\* C16: for every player aggregate the categories, games and bookmakers sets are
\* the sets of the categories, game labels and bookmakers of the entries of its
\* props list; the Over and the Under outcome of one bookmaker's batter_hits
\* market of one event give 2 props, 1 category, 1 game and 1 bookmaker, and one
\* record in each of the two batter_hits buckets.
C16_SetsMatchProps ==
    /\ \A p \in DOMAIN unique_players :
        LET a == unique_players[p]
            ks == 1..Len(a.props)
        IN  /\ a.categories = {a.props[k].category : k \in ks}
            /\ a.games = {a.props[k].game : k \in ks}
            /\ a.bookmakers = {a.props[k].bookmaker : k \in ks}
    /\ responses = <<Some(RScenario)>> =>
        /\ DOMAIN unique_players = {"Player X"}
        /\ Len(unique_players["Player X"].props) = 2
        /\ Cardinality(unique_players["Player X"].categories) = 1
        /\ Cardinality(unique_players["Player X"].games) = 1
        /\ Cardinality(unique_players["Player X"].bookmakers) = 1
        /\ Len(over_props["batter_hits"]) = 1
        /\ Len(under_props["batter_hits"]) = 1

\* C16 witness: a player with props of two bookmakers, two categories and two
\* games.
C16_Witness ==
    \E p \in DOMAIN unique_players :
        /\ Cardinality(unique_players[p].bookmakers) = 2
        /\ Cardinality(unique_players[p].categories) = 2
        /\ Cardinality(unique_players[p].games) = 2

-----------------------------------------------------------------------------
(* fetch_all_props_to_excel called again on the same fetcher *)

\* The first call on a fetcher with an API key, every event wanted.
InitRerun ==
    /\ Init
    /\ api_key = TRUE
    /\ max_events = None

\* The enrichment of the analysis leaves entries in the analyzer's caches.
AnalysisFillsCaches ==
    /\ pc = "analysis"
    /\ player_stats_cache = EmptyCache
    /\ player_stats_cache' = (<<"Player X", "batter_hits">> :> "stats-1")
    /\ player_id_cache' = ("Player X" :> "id-1")
    /\ game_logs_cache' = ("id-1" :> "logs-1")
    /\ UNCHANGED <<fetchVars, cache_lock, wpc, wkey, wresult, fetch_count>>

\* The caller of a call that is over (returned, or raised) is about to call
\* fetch_all_props_to_excel again: the locals of the earlier call are gone, the
\* fetcher's three data structures and the earlier analyzer are as they were
\* left.
CallAgain ==
    /\ pc \in {"analysis", "exited"}
    /\ pc' = "main"
    /\ listing_failed' = FALSE
    /\ listed' = 0
    /\ events' = <<>>
    /\ i' = 0
    /\ events_summary' = <<>>
    /\ retry' = 0
    /\ props_data' = None
    /\ calls' = 0
    /\ waited' = 0
    /\ delays' = 0
    /\ excel_filename' = ""
    /\ report_created' = FALSE
    /\ exit_status' = 0
    /\ raised' = FALSE
    /\ UNCHANGED <<api_key, max_events, unique_players, over_props, under_props,
                   ingested, responses, cacheVars>>

NextRerun ==
    \/ ListingFails
    \/ ListingSucceeds
    \/ GetEventPropsSucceeds
    \/ GetEventPropsFalsy
    \/ GetEventPropsRaises
    \/ BackoffSleep
    \/ InterEventDelay
    \/ CreateExcelSucceeds
    \/ CreateExcelFails
    \/ AnalysisFillsCaches
    \/ CallAgain

RerunSpec == InitRerun /\ [][NextRerun]_vars

\* The log without its last entry.
Front(log) == SubSeq(log, 1, Len(log) - 1)

\* The player aggregates that a log of ingested props builds from the empty dict.
RECURSIVE AggregateOf(_)
AggregateOf(log) ==
    IF log = <<>> THEN <<>>
    ELSE process_player_data(AggregateOf(Front(log)), log[Len(log)].Player,
                             log[Len(log)].Category, log[Len(log)])

\* The over buckets that a log of ingested props builds from empty buckets.
RECURSIVE OverOf(_)
OverOf(log) ==
    IF log = <<>> THEN EmptyBuckets
    ELSE RouteOver(OverOf(Front(log)), log[Len(log)].Category,
                   log[Len(log)].Bet_Type, log[Len(log)])

\* The under buckets that a log of ingested props builds from empty buckets.
RECURSIVE UnderOf(_)
UnderOf(log) ==
    IF log = <<>> THEN EmptyBuckets
    ELSE RouteUnder(UnderOf(Front(log)), log[Len(log)].Category,
                    log[Len(log)].Bet_Type, log[Len(log)])

\* C17: from the first step of a call of fetch_all_props_to_excel on,
\* whatever an earlier call on the same fetcher left behind, unique_players and
\* the over and under buckets hold exactly what the props ingested during this
\* call build from empty structures; and a step that creates an analyzer leaves
\* its three caches empty, whatever an earlier analyzer had cached.
C17_NothingCrossesRuns ==
    [][ /\ pc' # "main" =>
            /\ unique_players' = AggregateOf(ingested')
            /\ over_props' = OverOf(ingested')
            /\ under_props' = UnderOf(ingested')
        /\ pc = "excel" /\ pc' = "analysis" =>
            /\ player_stats_cache' = EmptyCache
            /\ player_id_cache' = EmptyCache
            /\ game_logs_cache' = EmptyCache ]_vars

\* C17 witness: a later call has finished its loop with props, none of Player X,
\* who is still in the cache of the analyzer of the earlier run.
C17_Witness ==
    /\ pc = "excel"
    /\ player_stats_cache # EmptyCache
    /\ "Player X" \notin DOMAIN unique_players
    /\ TotalProps > 0

\* s is an initial part of t.
IsPrefix(s, t) == Len(s) <= Len(t) /\ SubSeq(t, 1, Len(s)) = s

\* For every outcome received so far, in the order received, the id of the
\* event it was received for.
EventIdsReceived ==
    Concat([k \in 1..Len(responses) |->
               IF responses[k] = None THEN <<>>
               ELSE [j \in 1..Len(OutcomesOf(responses[k][1])) |-> events[k].id]])

\* The ingested props are the processed outcomes, one by one in the order of
\* the responses, the responses in the order of the listing.
LogInProcessingOrder ==
    LET processed == ProcessedOutcomes
        ids == EventIdsReceived
    IN  /\ Len(ingested) = Len(processed)
        /\ \A k \in 1..Len(ingested) :
            /\ ingested[k].Event_ID = ids[k]
            /\ ingested[k].Bet_Type = processed[k].name
            /\ ingested[k].Odds = processed[k].price
            /\ ingested[k].Player = PlayerNameOf(processed[k])
        /\ \A k \in 1..(Len(ingested) - 1) :
            ingested[k].Event_ID <= ingested[k + 1].Event_ID

\* Each player's props list holds the player's ingested props in the order of
\* ingestion.
PropsInProcessingOrder ==
    \A p \in DOMAIN unique_players :
        LET Mine(d) == d.Player = p
            mine == SelectSeq(ingested, Mine)
        IN  unique_players[p].props =
                [k \in 1..Len(mine) |-> PropInfo(mine[k].Category, mine[k])]

\* Each bucket holds the ingested props of its category and side in the order
\* of ingestion.
BucketsInProcessingOrder ==
    \A c \in prop_categories :
        LET IsOver(d) == d.Category = c /\ Lower(d.Bet_Type) = over
            IsUnder(d) == d.Category = c /\ Lower(d.Bet_Type) = under
        IN  /\ over_props[c] = SelectSeq(ingested, IsOver)
            /\ under_props[c] = SelectSeq(ingested, IsUnder)

\* A step of a run only appends: every list of before is an initial part of
\* the list of after.
OnlyAppended ==
    /\ \A p \in DOMAIN unique_players :
        /\ p \in DOMAIN unique_players'
        /\ IsPrefix(unique_players[p].props, unique_players'[p].props)
    /\ \A c \in prop_categories :
        /\ IsPrefix(over_props[c], over_props'[c])
        /\ IsPrefix(under_props[c], under_props'[c])

\* C18: at every point the ingested props are the processed outcomes in
\* processing order (events in listing order, then the order of the response),
\* each player's props list and each over/under bucket holds its props in that
\* same order, and a step of a run only appends to these lists: no entry is
\* removed or moved.
C18_ProcessingOrderKept ==
    /\ [](LogInProcessingOrder /\ PropsInProcessingOrder /\ BucketsInProcessingOrder)
    /\ [][pc # "main" => OnlyAppended]_vars

\* C18 witness: a player holds at least 3 props of 2 events and 2 bookmakers,
\* and an over bucket holds props of 2 events.
C18_Witness ==
    /\ \E p \in DOMAIN unique_players :
        /\ Len(unique_players[p].props) >= 3
        /\ Cardinality(unique_players[p].games) = 2
        /\ Cardinality(unique_players[p].bookmakers) = 2
    /\ \E c \in prop_categories :
        /\ Len(over_props[c]) >= 2
        /\ over_props[c][1].Event_ID # over_props[c][Len(over_props[c])].Event_ID

\* The smaller of two numbers.
Min(a, b) == IF a <= b THEN a ELSE b

\* The number of events to process of a listing of n events under the argument
\* max_events: all n for None and for 0, min(max_events, n) for a positive one.
EventsToProcess(n, limit) ==
    IF limit = None THEN n
    ELSE IF limit[1] > 0 THEN Min(limit[1], n)
    ELSE n

\* C19: with a listing of n > 0 events the run works on exactly the first
\* min(max_events, n) events of the listing, in listing order, when max_events
\* is positive, and on all n when max_events is None or 0: the events entered
\* so far are the first i of them, and when the loop is over without an
\* exception every one of them has been entered and answered.
C19_MaxEventsLimit ==
    pc # "main" /\ listed > 0 =>
        LET n == EventsToProcess(listed, max_events)
        IN  /\ events = SubSeq(Listing(listed), 1, n)
            /\ i <= n
            /\ Len(events_summary) = i
            /\ \A k \in 1..i : events_summary[k].Event_ID = Listing(listed)[k].id
            /\ (pc \in {"excel", "analysis"} \/ (pc = "exited" /\ ~raised)) =>
                /\ i = n
                /\ Len(responses) = n

\* C19 witness: with max_events = 0 the loop over a listing of 3 events is over
\* and all 3 were processed.
C19_Witness ==
    /\ max_events = Some(0)
    /\ listed = 3
    /\ pc = "excel"
    /\ Len(events_summary) = 3
    /\ Len(responses) = 3

\* With a positive max_events below the size of the listing the loop is over
\* after max_events events.
C19_LimitReached ==
    /\ max_events = Some(2)
    /\ listed = 3
    /\ pc = "excel"
    /\ Len(events_summary) = 2

====
